---- MODULE Spec2Model ----
(***************************************************************************)
(* PyUnitWizard: the string parser (pyunitwizard/parse.py) and the         *)
(* exception constructors of _private/exceptions/no_standards_error.py.    *)
(* A Python str is a sequence of one-character strings.                    *)
(***************************************************************************)
EXTENDS Integers, Sequences, FiniteSets, TLC

\* Longest text given to parse, and longest text given to _parse_with_pint.
MaxLen == 2
MaxPintLen == 4

\* Characters the texts are written with: both bracket pairs, a digit, a
\* letter and a blank.
Alphabet == {"[", "]", "(", ")", "1", "m", " "}
Digits == {"1"}
Letters == {"m"}

Strings(n) == UNION {[1..k -> Alphabet] : k \in 0..n}

-----------------------------------------------------------------------------
(* Python str operations used by _parse_with_pint *)

\* str.startswith(c) for a one-character c
startswith(s, c) == Len(s) >= 1 /\ s[1] = c

\* str.rfind(c) for a one-character c: the highest 0-based index of c, or -1
RECURSIVE RFindFrom(_, _, _)
RFindFrom(s, c, i) ==
    IF i = 0 THEN -1
    ELSE IF s[i] = c THEN i - 1
    ELSE RFindFrom(s, c, i - 1)

rfind(s, c) == RFindFrom(s, c, Len(s))

max(a, b) == IF a >= b THEN a ELSE b

\* s[:n] and s[n:] for 0 <= n <= len(s)
SliceTo(s, n) == SubSeq(s, 1, n)
SliceFrom(s, n) == SubSeq(s, n + 1, Len(s))

-----------------------------------------------------------------------------
(* ast.literal_eval, on the texts of Alphabet.  The text is left-stripped,  *)
(* tokenised and parsed as one Python expression; a Name, a Call or a      *)
(* Subscript node is a malformed node.  A value is written as the token    *)
(* sequence of its repr.                                                   *)

RECURSIVE lstrip(_)
lstrip(s) == IF Len(s) >= 1 /\ s[1] = " " THEN lstrip(Tail(s)) ELSE s

\* First index >= i whose character is outside S (Len(s)+1 when none).
RECURSIVE RunEnd(_, _, _)
RunEnd(s, i, S) ==
    IF i > Len(s) \/ s[i] \notin S THEN i ELSE RunEnd(s, i + 1, S)

RECURSIVE TokenizeFrom(_, _, _)
TokenizeFrom(s, i, acc) ==
    IF i > Len(s) THEN [ok |-> TRUE, toks |-> acc]
    ELSE IF s[i] = " " THEN TokenizeFrom(s, i + 1, acc)
    ELSE IF s[i] \in Digits THEN
        LET j == RunEnd(s, i, Digits) IN
        IF j <= Len(s) /\ s[j] \in Letters
        THEN [ok |-> FALSE, toks |-> acc]      \* invalid decimal literal
        ELSE TokenizeFrom(s, j, Append(acc, SubSeq(s, i, j - 1)))
    ELSE IF s[i] \in Letters THEN
        LET j == RunEnd(s, i, Letters \cup Digits) IN
        TokenizeFrom(s, j, Append(acc, SubSeq(s, i, j - 1)))
    ELSE TokenizeFrom(s, i + 1, Append(acc, <<s[i]>>))

Tokenize(s) == TokenizeFrom(s, 1, <<>>)

NoParse == [ok |-> FALSE, next |-> 0, lit |-> FALSE, val |-> <<>>]
Node(n, l, v) == [ok |-> TRUE, next |-> n, lit |-> l, val |-> v]
IsTok(t, i, c) == i <= Len(t) /\ t[i] = <<c>>

RECURSIVE ParseExpr(_, _)
RECURSIVE ParseTrailers(_, _)

\* atom: NUMBER | NAME | '(' [expr] ')' | '[' [expr] ']'
ParseAtom(t, i) ==
    IF i > Len(t) THEN NoParse
    ELSE IF t[i][1] \in Digits THEN Node(i + 1, TRUE, <<t[i]>>)
    ELSE IF t[i][1] \in Letters THEN Node(i + 1, FALSE, <<>>)
    ELSE IF t[i] = <<"(">> THEN
        IF IsTok(t, i + 1, ")")
        THEN Node(i + 2, TRUE, << <<"(">>, <<")">> >>)
        ELSE LET e == ParseExpr(t, i + 1) IN
             IF e.ok /\ IsTok(t, e.next, ")")
             THEN Node(e.next + 1, e.lit, e.val)
             ELSE NoParse
    ELSE IF t[i] = <<"[">> THEN
        IF IsTok(t, i + 1, "]")
        THEN Node(i + 2, TRUE, << <<"[">>, <<"]">> >>)
        ELSE LET e == ParseExpr(t, i + 1) IN
             IF e.ok /\ IsTok(t, e.next, "]")
             THEN Node(e.next + 1, e.lit, << <<"[">> >> \o e.val \o << <<"]">> >>)
             ELSE NoParse
    ELSE NoParse

\* trailers: a call '(' [expr] ')' or a subscript '[' expr ']'
ParseTrailers(t, r) ==
    IF IsTok(t, r.next, "(") THEN
        IF IsTok(t, r.next + 1, ")")
        THEN ParseTrailers(t, Node(r.next + 2, FALSE, <<>>))
        ELSE LET e == ParseExpr(t, r.next + 1) IN
             IF e.ok /\ IsTok(t, e.next, ")")
             THEN ParseTrailers(t, Node(e.next + 1, FALSE, <<>>))
             ELSE NoParse
    ELSE IF IsTok(t, r.next, "[") THEN
        LET e == ParseExpr(t, r.next + 1) IN
        IF e.ok /\ IsTok(t, e.next, "]")
        THEN ParseTrailers(t, Node(e.next + 1, FALSE, <<>>))
        ELSE NoParse
    ELSE r

ParseExpr(t, i) ==
    LET a == ParseAtom(t, i) IN
    IF a.ok THEN ParseTrailers(t, a) ELSE NoParse

Return(v) == [tag |-> "return", value |-> v]
Raise(e) == [tag |-> "raise", exc |-> e]

\* An exception object: its class, what the class is documented to carry,
\* and the parts of its message.
Exception(type, carries, message) ==
    [type |-> type, carries |-> carries, message |-> message]

BuiltinError(type) == Exception(type, <<>>, <<>>)

literal_eval(s) ==
    LET tk == Tokenize(lstrip(s)) IN
    IF ~tk.ok THEN Raise(BuiltinError("SyntaxError"))
    ELSE LET e == ParseExpr(tk.toks, 1) IN
         IF ~e.ok \/ e.next # Len(tk.toks) + 1
         THEN Raise(BuiltinError("SyntaxError"))
         ELSE IF ~e.lit THEN Raise(BuiltinError("ValueError"))
         ELSE Return(e.val)

-----------------------------------------------------------------------------
(* _private/exceptions/no_standards_error.py *)

None == "<None>"

\* pyunitwizard.__github_issues_web__
github_issues_web == "<__github_issues_web__>"

\* Whether `from sabueso import __github_issues_web__` finds the package, and
\* the name in it: the interpreter's environment decides.
SabuesoStates == {"absent", "no_attribute", "present"}

\* NoStandardsError.__init__(self): caller_name is computed and not used.
NoStandardsError(caller_name) ==
    Return(Exception("NoStandardsError", <<>>,
        <<"The input quantity method has no standard. ",
          "A complete set of standard units need to be defined. ",
          "Check ", "", " for more information. ",
          "If you still need help, open a new issue in ", github_issues_web, ".">>))

\* UnknownFormError.__init__(self): imports from sabueso, then formats the
\* message with the undefined name method_name.
UnknownFormError(caller_name, sabueso) ==
    IF sabueso = "absent" THEN Raise(BuiltinError("ModuleNotFoundError"))
    ELSE IF sabueso = "no_attribute" THEN Raise(BuiltinError("ImportError"))
    ELSE Raise(BuiltinError("NameError"))

LibraryNotFoundError(library, caller_name) ==
    Return(Exception("LibraryNotFoundError", <<>>,
        <<"The python library ", library, " was not found. ",
          "Although ", library, " is not considered a dependency, it needs ",
          "to be installed to execute the ", caller_name,
          " method the way you require. ",
          "If you still need help, open a new issue in ", github_issues_web, ".">>))

LibraryWithoutParserError(library, caller_name) ==
    Return(Exception("LibraryWithoutParserError", <<>>,
        <<"The python library ", library, " was not found. ",
          "Although ", library, " is not considered a dependency, it needs ",
          "to be installed to execute the ", caller_name,
          " method the way you require. ",
          "If you still need help, open a new issue in ", github_issues_web, ".">>))

\* `raise C(...)`: raises the constructed exception, or whatever the
\* constructor itself raised.
RaiseNew(constructed) ==
    IF constructed.tag = "return" THEN Raise(constructed.value) ELSE constructed

\* BadCallError(argument) and NotImplementedParsingError(parser, to_form)
BadCallError(argument, caller_name) ==
    Return(Exception("BadCallError", <<argument>>,
        <<argument, caller_name, github_issues_web>>))

NotImplementedParsingError(parser_form, form, caller_name) ==
    Return(Exception("NotImplementedParsingError", <<parser_form, form>>,
        <<parser_form, form, caller_name, github_issues_web>>))

-----------------------------------------------------------------------------
(* _private/forms.py, _private/parsers.py: digestion of form identifiers *)

SupportedForms == {"string", "pint", "openmm.unit", "unyt"}

\* Case normalisation of the identifiers the callers of this model pass.
Lower(candidate) ==
    CASE candidate = "PINT" -> "pint"
      [] candidate = "Unyt" -> "unyt"
      [] OTHER -> candidate

digest_form(candidate, default, caller_name, sabueso) ==
    IF candidate = None THEN Return(default)
    ELSE IF Lower(candidate) \in SupportedForms THEN Return(Lower(candidate))
    ELSE RaiseNew(UnknownFormError(caller_name, sabueso))

digest_parser(candidate, default, sabueso) ==
    digest_form(candidate, default, "digest_parser", sabueso)

digest_to_form(candidate, default, sabueso) ==
    digest_form(candidate, default, "digest_to_form", sabueso)

-----------------------------------------------------------------------------
(* forms.dict_translate_quantity: the converters of the quantity libraries. *)
(* A quantity is opaque: its form and the expression that produced it.      *)

Quantity(form, expr) == [form |-> form, expr |-> expr]

\* What a converter raises when its library rejects the input.
ConverterError == Raise(BuiltinError("ConverterError"))

\* dict_translate_quantity['string']['pint'](unit_string); accepted tells
\* whether the library accepts the text.
string_to_pint(unit_string, accepted) ==
    IF accepted THEN Return(Quantity("pint", <<"string_to_pint", unit_string>>))
    ELSE ConverterError

\* dict_translate_quantity['pint'][form](quantity)
pint_to(form, quantity, accepted) ==
    IF accepted THEN Return(Quantity(form, <<"pint_to", form, quantity.expr>>))
    ELSE ConverterError

\* value * quantity, the library's broadcast product
Mul(value, quantity) ==
    Quantity(quantity.form, <<"mul", value, quantity.expr>>)

Call(fn, arg, out) == [fn |-> fn, arg |-> arg, out |-> out]

-----------------------------------------------------------------------------
(* parse.py: _parse_with_pint *)

\* A variant that strips leading blanks before looking at the first character.
IsNonScalarStripped(string) ==
    startswith(lstrip(string), "[") \/ startswith(lstrip(string), "(")

\* line 22
IsNonScalar(string) == startswith(string, "[") \/ startswith(string, "(")

\* A variant that looks for the closing ']' only.
EndListSquareOnly(string) == rfind(string, "]") + 1

\* line 24
EndList(string) == max(rfind(string, ")") + 1, rfind(string, "]") + 1)

\* lines 22-30; the result is the calls made, in order, and the outcome
parse_with_pint(string, accepted) ==
    IF IsNonScalar(string) THEN
        LET end_list == EndList(string)
            value_string == SliceTo(string, end_list)
            unit_string == SliceFrom(string, end_list)
            v == literal_eval(value_string)
            u == string_to_pint(unit_string, accepted)
        IN IF v.tag = "raise"
           THEN [calls |-> <<Call("ast.literal_eval", value_string, v)>>,
                 outcome |-> v]
           ELSE [calls |-> <<Call("ast.literal_eval", value_string, v),
                            Call("string_to_pint", unit_string, u)>>,
                 outcome |-> IF u.tag = "raise" THEN u
                             ELSE Return(Mul(v.value, u.value))]
    ELSE
        LET u == string_to_pint(string, accepted)
        IN [calls |-> <<Call("string_to_pint", string, u)>>, outcome |-> u]

-----------------------------------------------------------------------------
(* parse.py: parse(string, parser=None, to_form=None) *)

VARIABLES
    string,          \* the first argument: [type, chars]
    parser,          \* the local `parser`: the argument, then its digested form
    to_form,         \* the local `to_form`: the argument, then its digested form
    default_parser,  \* the configured default parser (None until configured)
    default_form,    \* the configured default form (None until configured)
    site,            \* a raise site of the exceptions module: [class, library, caller]
    pc,              \* the statement the call is at
    pint_quantity,   \* the local `pint_quantity`
    calls,           \* the calls made so far, in order, each with its outcome
    result           \* what the call returned or raised

vars == <<string, parser, to_form, default_parser, default_form, site, pc,
          pint_quantity, calls, result>>

StrArg(chars) == [type |-> "str", chars |-> chars]
IntArg(chars) == [type |-> "int", chars |-> chars]

\* A variant that lets a number through, to be coerced to text.
IsStrOrNumber(value) == value.type \in {"str", "int"}

\* isinstance(string, str)
IsStr(value) == value.type = "str"

NoResult == [tag |-> "none"]
NoQuantity == Quantity(None, <<>>)
NoSite == [class |-> None, library |-> None, caller |-> None]

ParserArgs == {None, "pint", "PINT", "openmm.unit", "unyt", "string", "bogus"}
FormArgs == {None, "pint", "openmm.unit", "Unyt", "unyt", "string", "bogus"}
Defaults == {None, "pint"}
NonStrings == {IntArg(<<"1">>), [type |-> "NoneType", chars |-> <<>>]}

Init ==
    /\ string \in {StrArg(s) : s \in Strings(MaxLen)} \cup NonStrings
    /\ parser \in ParserArgs
    /\ to_form \in FormArgs
    /\ default_parser \in Defaults
    /\ default_form \in Defaults
    /\ site = NoSite
    /\ pc = "check_string"
    /\ pint_quantity = NoQuantity
    /\ calls = <<>>
    /\ result = NoResult

\* Variants of the branching of lines 58-82: the 'unyt' parser branch left
\* out; to_form 'string' returned untranslated; an uncovered to_form of the
\* pint parser returned in pint's native form.
BranchWithoutUnyt(p, f) ==
    IF p = "pint" THEN
        IF f = "pint" THEN "native"
        ELSE IF f \in {"openmm.unit", "string", "unyt"} THEN "translate"
        ELSE "not_implemented"
    ELSE IF p = "openmm.unit" THEN "no_parser"
    ELSE "not_implemented"

BranchStringNative(p, f) ==
    IF p = "pint" THEN
        IF f \in {"pint", "string"} THEN "native"
        ELSE IF f \in {"openmm.unit", "unyt"} THEN "translate"
        ELSE "not_implemented"
    ELSE IF p \in {"openmm.unit", "unyt"} THEN "no_parser"
    ELSE "not_implemented"

BranchDefaultNative(p, f) ==
    IF p = "pint" THEN
        IF f \in {"openmm.unit", "string", "unyt"} THEN "translate"
        ELSE "native"
    ELSE IF p \in {"openmm.unit", "unyt"} THEN "no_parser"
    ELSE "not_implemented"

\* lines 58-82: which branch the digested pair takes
Branch(p, f) ==
    IF p = "pint" THEN
        IF f = "pint" THEN "native"
        ELSE IF f = "openmm.unit" THEN "translate"
        ELSE IF f = "string" THEN "translate"
        ELSE IF f = "unyt" THEN "translate"
        ELSE "not_implemented"
    ELSE IF p = "openmm.unit" THEN "no_parser"
    ELSE IF p = "unyt" THEN "no_parser"
    ELSE "not_implemented"

\* A variant that goes from the type check straight to the digestion of to_form.
AfterCheckStringSkipsParser == "digest_to_form"

\* The statement that follows the type check of line 52.
AfterCheckString == "digest_parser"

\* lines 52-53
CheckString ==
    /\ pc = "check_string"
    /\ calls' = Append(calls, Call("isinstance", string, Return(IsStr(string))))
    /\ IF ~IsStr(string)
       THEN /\ result' = RaiseNew(BadCallError("string", "parse"))
            /\ pc' = "done"
       ELSE /\ pc' = AfterCheckString
            /\ UNCHANGED result
    /\ UNCHANGED <<string, parser, to_form, default_parser, default_form, site,
                   pint_quantity>>

\* line 55
DigestParser ==
    /\ pc = "digest_parser"
    /\ \E sabueso \in SabuesoStates :
        LET o == digest_parser(parser, default_parser, sabueso) IN
        /\ calls' = Append(calls, Call("digest_parser", parser, o))
        /\ IF o.tag = "raise"
           THEN /\ result' = o
                /\ pc' = "done"
                /\ UNCHANGED parser
           ELSE /\ parser' = o.value
                /\ pc' = "digest_to_form"
                /\ UNCHANGED result
    /\ UNCHANGED <<string, to_form, default_parser, default_form, site,
                   pint_quantity>>

\* line 56
DigestToForm ==
    /\ pc = "digest_to_form"
    /\ \E sabueso \in SabuesoStates :
        LET o == digest_to_form(to_form, default_form, sabueso) IN
        /\ calls' = Append(calls, Call("digest_to_form", to_form, o))
        /\ IF o.tag = "raise"
           THEN /\ result' = o
                /\ pc' = "done"
                /\ UNCHANGED to_form
           ELSE /\ to_form' = o.value
                /\ pc' = "dispatch"
                /\ UNCHANGED result
    /\ UNCHANGED <<string, parser, default_parser, default_form, site,
                   pint_quantity>>

\* lines 58-82, up to the return or raise of the branch taken, or to the
\* assignment of pint_quantity
Dispatch ==
    /\ pc = "dispatch"
    /\ LET b == Branch(parser, to_form) IN
       IF b \in {"native", "translate"} THEN
           \E accepted \in BOOLEAN :
               LET r == parse_with_pint(string.chars, accepted) IN
               /\ calls' = calls \o r.calls
               /\ IF b = "native" \/ r.outcome.tag = "raise"
                  THEN /\ result' = r.outcome
                       /\ pc' = "done"
                       /\ UNCHANGED pint_quantity
                  ELSE /\ pint_quantity' = r.outcome.value
                       /\ pc' = "translate"
                       /\ UNCHANGED result
       ELSE
           /\ result' = IF b = "no_parser"
                        THEN RaiseNew(LibraryWithoutParserError(parser, "parse"))
                        ELSE RaiseNew(NotImplementedParsingError(parser, to_form, "parse"))
           /\ pc' = "done"
           /\ UNCHANGED <<calls, pint_quantity>>
    /\ UNCHANGED <<string, parser, to_form, default_parser, default_form, site>>

\* lines 64, 68, 72
Translate ==
    /\ pc = "translate"
    /\ \E accepted \in BOOLEAN :
        LET o == pint_to(to_form, pint_quantity, accepted) IN
        /\ calls' = Append(calls, Call("pint_to", pint_quantity, o))
        /\ result' = o
    /\ pc' = "done"
    /\ UNCHANGED <<string, parser, to_form, default_parser, default_form, site,
                   pint_quantity>>

Next == CheckString \/ DigestParser \/ DigestToForm \/ Dispatch \/ Translate

Spec == Init /\ [][Next]_vars

-----------------------------------------------------------------------------
(* _parse_with_pint called on its own, on every text up to MaxPintLen *)

InitPint ==
    /\ string \in {StrArg(s) : s \in Strings(MaxPintLen)}
    /\ parser = "pint"
    /\ to_form = "pint"
    /\ default_parser = None
    /\ default_form = None
    /\ site = NoSite
    /\ pc = "parse_with_pint"
    /\ pint_quantity = NoQuantity
    /\ calls = <<>>
    /\ result = NoResult

ParseWithPint ==
    /\ pc = "parse_with_pint"
    /\ \E accepted \in BOOLEAN :
        LET r == parse_with_pint(string.chars, accepted) IN
        /\ calls' = r.calls
        /\ result' = r.outcome
    /\ pc' = "done"
    /\ UNCHANGED <<string, parser, to_form, default_parser, default_form, site,
                   pint_quantity>>

NextPint == ParseWithPint

SpecPint == InitPint /\ [][NextPint]_vars

-----------------------------------------------------------------------------
(* A raise site of each exception class of no_standards_error.py *)

ExceptionClasses == {"NoStandardsError", "UnknownFormError",
                     "LibraryNotFoundError", "LibraryWithoutParserError"}
Libraries == {"pint", "openmm.unit", "unyt"}
Callers == {"parse", "digest_parser", "digest_to_form", "standardize"}

InitRaise ==
    /\ site \in [class : ExceptionClasses, library : Libraries, caller : Callers]
    /\ string = StrArg(<<>>)
    /\ parser = None
    /\ to_form = None
    /\ default_parser = None
    /\ default_form = None
    /\ pc = "raise"
    /\ pint_quantity = NoQuantity
    /\ calls = <<>>
    /\ result = NoResult

\* C(...) as the raise site evaluates it
Construct(s, sabueso) ==
    CASE s.class = "NoStandardsError" -> NoStandardsError(s.caller)
      [] s.class = "UnknownFormError" -> UnknownFormError(s.caller, sabueso)
      [] s.class = "LibraryNotFoundError" -> LibraryNotFoundError(s.library, s.caller)
      [] s.class = "LibraryWithoutParserError" ->
            LibraryWithoutParserError(s.library, s.caller)

RaiseSite ==
    /\ pc = "raise"
    /\ \E sabueso \in SabuesoStates :
        result' = RaiseNew(Construct(site, sabueso))
    /\ pc' = "done"
    /\ UNCHANGED <<string, parser, to_form, default_parser, default_form, site,
                   pint_quantity, calls>>

NextRaise == RaiseSite

SpecRaise == InitRaise /\ [][NextRaise]_vars

-----------------------------------------------------------------------------
(* Properties *)

Text == string.chars
Range(seq) == {seq[i] : i \in DOMAIN seq}
Done == pc = "done"
CallsTo(fn) == {i \in DOMAIN calls : calls[i].fn = fn}
Raised(type) == result.tag = "raise" /\ result.exc.type = type
ParsingCalls == CallsTo("ast.literal_eval") \cup CallsTo("string_to_pint")
                    \cup CallsTo("pint_to")

\* Both identifiers have been digested: parser and to_form hold canonical forms.
Digested ==
    /\ \E i \in CallsTo("digest_parser") : calls[i].out.tag = "return"
    /\ \E i \in CallsTo("digest_to_form") : calls[i].out.tag = "return"

\* 1-based index of the ']' that closes the '[' opening s, 0 when it is never closed
RECURSIVE ClosingFrom(_, _, _)
ClosingFrom(s, i, depth) ==
    IF i > Len(s) THEN 0
    ELSE IF s[i] = "[" THEN ClosingFrom(s, i + 1, depth + 1)
    ELSE IF s[i] = "]" THEN
        IF depth = 1 THEN i ELSE ClosingFrom(s, i + 1, depth - 1)
    ELSE ClosingFrom(s, i + 1, depth)

ClosingSquare(s) == ClosingFrom(s, 1, 0)

\* 1-based index of the last ')' or ']' of s, 0 when there is none
LastCloser(s) ==
    LET at == {i \in DOMAIN s : s[i] \in {")", "]"}} IN
    IF at = {} THEN 0 ELSE CHOOSE i \in at : \A j \in at : j <= i

BeginsWithBracket(s) == Len(s) > 0 /\ s[1] \in {"[", "("}

\* C1: for a text that begins with '[', the payload handed to the literal
\* evaluation is the text up to and including the ']' closing the sequence
\* literal, and the unit string is everything after it, even when a ')'
\* occurs later in the text.
C1_SplitAtClosingSquare ==
    (Done /\ startswith(Text, "[") /\ ClosingSquare(Text) > 0) =>
        /\ calls[1].fn = "ast.literal_eval"
        /\ calls[1].arg = SliceTo(Text, ClosingSquare(Text))
        /\ \A i \in CallsTo("string_to_pint") :
               calls[i].arg = SliceFrom(Text, ClosingSquare(Text))

\* C2: for a text beginning with '[' or '(', the split index is one past the
\* last ')' or ']' (0 when neither occurs); the payload is the text before
\* the split, the unit string the text from it on, together the whole text;
\* the result is the evaluated payload times the converted unit string, or
\* what the evaluation or the conversion raised.
C2_LastBracketSplit ==
    (Done /\ BeginsWithBracket(Text)) =>
        LET k == LastCloser(Text) IN
        /\ Len(calls) >= 1
        /\ calls[1].fn = "ast.literal_eval"
        /\ calls[1].arg = SliceTo(Text, k)
        /\ IF calls[1].out.tag = "raise"
           THEN Len(calls) = 1 /\ result = calls[1].out
           ELSE /\ Len(calls) = 2
                /\ calls[2].fn = "string_to_pint"
                /\ calls[2].arg = SliceFrom(Text, k)
                /\ calls[1].arg \o calls[2].arg = Text
                /\ IF calls[2].out.tag = "raise"
                   THEN result = calls[2].out
                   ELSE /\ result.tag = "return"
                        /\ result.value.form = "pint"
                        /\ result.value.expr =
                             <<"mul", calls[1].out.value, calls[2].out.value.expr>>

C2_Witness ==
    /\ Done
    /\ BeginsWithBracket(Text)
    /\ result.tag = "return"
    /\ Len(calls) = 2
    /\ Len(calls[2].arg) > 0
    /\ \E i \in DOMAIN Text : Text[i] = ")"

\* C3: a text beginning with '[' or '(' that holds neither ')' nor ']' has an
\* empty payload, and the call does not raise because of the empty payload.
C3_EmptyPayloadDoesNotRaise ==
    (Done /\ BeginsWithBracket(Text) /\ LastCloser(Text) = 0) =>
        ~ \E i \in CallsTo("ast.literal_eval") :
              /\ calls[i].arg = <<>>
              /\ calls[i].out.tag = "raise"
              /\ result = calls[i].out

\* C8: a text that does not begin with '[' or '(' (first character alone,
\* nothing stripped) is handed whole to the string-to-pint constructor, once,
\* whose outcome is the result; nothing is evaluated as a literal.
C8_ScalarHandedWhole ==
    (Done /\ ~BeginsWithBracket(Text)) =>
        /\ Len(calls) = 1
        /\ calls[1].fn = "string_to_pint"
        /\ calls[1].arg = Text
        /\ result = calls[1].out

C8_Witness ==
    /\ Done
    /\ Len(Text) >= 2 /\ Text[1] = " " /\ Text[2] = "["
    /\ result.tag = "return"

\* C4: a first argument that is not a string raises BadCallError naming
\* 'string', whatever parser and to_form are, before any digestion and
\* without any converter.
C4_NonStringIsBadCall ==
    (string.type # "str" /\ pc # "check_string") =>
        /\ Done
        /\ Raised("BadCallError")
        /\ result.exc.carries = <<"string">>
        /\ Len(calls) = 1 /\ calls[1].fn = "isinstance"

C4_Witness ==
    /\ Done
    /\ string.type = "int"
    /\ parser = "bogus" /\ to_form = None
    /\ Raised("BadCallError")

NoParserLibraries == {"openmm.unit", "unyt"}

RaisedWithoutParser ==
    /\ Raised("LibraryWithoutParserError")
    /\ parser \in Range(result.exc.message)
    /\ ParsingCalls = {}

ParserDigested == \E i \in CallsTo("digest_parser") : calls[i].out.tag = "return"

\* C5 as stated: a parser digesting to 'openmm.unit' or 'unyt' raises
\* LibraryWithoutParserError naming the library, whatever to_form is asked
\* for, and nothing is parsed or converted.
C5_WithoutParserWhateverToForm ==
    (Done /\ ParserDigested /\ parser \in NoParserLibraries) => RaisedWithoutParser

\* C5, amended: a parser digesting to 'openmm.unit' or 'unyt' raises
\* LibraryWithoutParserError naming the library for every to_form that
\* digest_to_form accepts, and nothing is parsed or converted; a to_form that
\* digestion rejects raises from digest_to_form first.
C5_WithoutParserOnceDigested ==
    (Done /\ parser \in NoParserLibraries) =>
        /\ Digested => RaisedWithoutParser
        /\ ParserDigested /\ ~Digested =>
              /\ calls[Len(calls)].fn = "digest_to_form"
              /\ result = calls[Len(calls)].out
              /\ result.tag = "raise"
              /\ ParsingCalls = {}

C5_Witness ==
    /\ Done
    /\ Digested
    /\ parser = "unyt" /\ to_form = "string"
    /\ RaisedWithoutParser

PintOutcomes == {parse_with_pint(Text, a).outcome : a \in BOOLEAN}
TranslatedForms == {"openmm.unit", "string", "unyt"}

\* C6: with parser 'pint' the quantity is first produced by _parse_with_pint;
\* to_form 'pint' returns it with no converter of the matrix applied; to_form
\* 'openmm.unit', 'string' or 'unyt' returns the ('pint', to_form) converter
\* applied once to it.
C6_PintThenTranslateOnce ==
    (Done /\ Digested /\ parser = "pint") =>
        /\ to_form = "pint" =>
              /\ result \in PintOutcomes
              /\ CallsTo("pint_to") = {}
        /\ to_form \in TranslatedForms =>
              IF pint_quantity = NoQuantity
              THEN /\ result.tag = "raise"
                   /\ result \in PintOutcomes
                   /\ CallsTo("pint_to") = {}
              ELSE /\ Return(pint_quantity) \in PintOutcomes
                   /\ Cardinality(CallsTo("pint_to")) = 1
                   /\ calls[Len(calls)].fn = "pint_to"
                   /\ calls[Len(calls)].arg = pint_quantity
                   /\ result = calls[Len(calls)].out
                   /\ result \in {pint_to(to_form, pint_quantity, a) : a \in BOOLEAN}

C6_Witness ==
    /\ Done
    /\ Digested
    /\ parser = "pint" /\ to_form = "string"
    /\ BeginsWithBracket(Text)
    /\ result.tag = "return"
    /\ result.value.form = "string"

\* C7: a digested pair with no parsing or conversion path (a parser other
\* than 'pint', 'openmm.unit', 'unyt', or 'pint' with a to_form that is not
\* 'pint' and has no ('pint', to_form) converter) raises
\* NotImplementedParsingError carrying the pair: no value, no other error.
C7_NoPathIsNotImplemented ==
    (Done /\ Digested /\
        (\/ parser \notin {"pint", "openmm.unit", "unyt"}
         \/ parser = "pint" /\ to_form \notin {"pint"} \cup TranslatedForms)) =>
        /\ Raised("NotImplementedParsingError")
        /\ result.exc.carries = <<parser, to_form>>
        /\ ParsingCalls = {}

C7_Witness ==
    /\ Done
    /\ Digested
    /\ parser = "pint" /\ to_form = None
    /\ Raised("NotImplementedParsingError")

\* C9: every exception class of the module can be constructed at a raise
\* site, the exception raised is of that class, and its message holds the
\* caller's name and the pointer to the issues page.
C9_ConstructedWithCallerAndSupport ==
    Done =>
        /\ Raised(site.class)
        /\ site.caller \in Range(result.exc.message)
        /\ github_issues_web \in Range(result.exc.message)

StepOrder == <<"isinstance", "digest_parser", "digest_to_form",
               "ast.literal_eval", "string_to_pint", "pint_to">>
Rank(fn) == CHOOSE k \in DOMAIN StepOrder : StepOrder[k] = fn

\* C10: the steps of a call come in the order type check, digest parser,
\* digest to_form, string-to-pint parsing, at most one translation; what a
\* step raises ends the call as its result (nothing is caught), so a
\* digestion that raises is followed by no constructor and no converter.
C10_StepsInOrder ==
    /\ \A i \in DOMAIN calls : i <= 3 => calls[i].fn = StepOrder[i]
    /\ \A i, j \in DOMAIN calls : i < j => Rank(calls[i].fn) < Rank(calls[j].fn)
    /\ \A i \in CallsTo("pint_to") :
           \E j \in CallsTo("string_to_pint") : calls[j].out.tag = "return"
    /\ \A i \in DOMAIN calls :
           calls[i].out.tag = "raise" =>
               /\ i = Len(calls)
               /\ Done
               /\ result = calls[i].out
    /\ ParsingCalls # {} => Digested

C10_Witness ==
    /\ Done
    /\ Len(calls) = 3
    /\ calls[2].out.tag = "return"
    /\ calls[3].fn = "digest_to_form"
    /\ calls[3].out.tag = "raise"
    /\ result = calls[3].out

====
